---- MODULE Spec2Model ----
(***************************************************************************)
(* Friendly Fix Plumbing - browser scripting layer (assets/js/main.js).    *)
(*                                                                         *)
(* The model follows the page as the script sees it: the DOM nodes the     *)
(* handlers read and write (searchable cards, tag buttons, the query       *)
(* field, the no-results message, the Load More button), the node lists    *)
(* the closures captured at initialisation, and the pending timers.        *)
(* Strings are sequences of one-character strings, so that toLowerCase,    *)
(* trim and String.prototype.includes are computed, not assumed.           *)
(***************************************************************************)
EXTENDS Integers, Sequences, FiniteSets, TLC

\* ------------------------------------------------------------------------
\* Bounds of the model
\* ------------------------------------------------------------------------

\* Largest number of [data-searchable] elements the document grows to:
\* Load More is explored while the batch it appends still fits.
MaxItems == 6

\* Accordion items, modals and gallery images the page holds.
NAccordionItems == 2
NModals == 2
NImages == 2

\* ------------------------------------------------------------------------
\* String primitives (JavaScript String methods used by the handlers)
\* ------------------------------------------------------------------------

\* One character of String.prototype.toLowerCase over the alphabet in use.
LowerChar(c) ==
  CASE c = "A" -> "a" [] c = "B" -> "b" [] c = "D" -> "d" [] c = "E" -> "e"
    [] c = "G" -> "g" [] c = "K" -> "k" [] c = "L" -> "l" [] c = "P" -> "p"
    [] c = "W" -> "w" [] OTHER -> c

ToLowerCase(s) == [i \in DOMAIN s |-> LowerChar(s[i])]

\* String.prototype.trim: leading and trailing white space removed.
Trim(s) ==
  LET ink == {i \in DOMAIN s : s[i] # " "}
  IN  IF ink = {} THEN <<>>
      ELSE SubSeq(s, CHOOSE i \in ink : \A j \in ink : i <= j,
                     CHOOSE i \in ink : \A j \in ink : i >= j)

\* String.prototype.includes: t occurs in s as a contiguous substring.
Includes(s, t) ==
  \E k \in 0..(Len(s) - Len(t)) : SubSeq(s, k + 1, k + Len(t)) = t

\* ------------------------------------------------------------------------
\* Page markup: the cards, the tag buttons and the queries typed
\* ------------------------------------------------------------------------

TextA == <<"L", "e", "a", "k", " ", "d", "e", "t", "e", "c", "t", "i", "o", "n">>
TextB == <<"D", "r", "a", "i", "n", " ", "c", "l", "e", "a", "n", "i", "n", "g">>
TextC == <<"W", "a", "t", "e", "r", " ", "h", "e", "a", "t", "e", "r", " ", "i", "n", "s", "t", "a", "l", "l">>
TextD == <<"P", "i", "p", "e", " ", "r", "e", "p", "a", "i", "r">>
TextE == <<"G", "a", "s", " ", "f", "i", "t", "t", "i", "n", "g">>
TextF == <<"B", "o", "i", "l", "e", "r", " ", "s", "e", "r", "v", "i", "c", "e">>

CatA == <<"r", "e", "s", "i", "d", "e", "n", "t", "i", "a", "l", " ", "e", "m", "e", "r", "g", "e", "n", "c", "y">>
CatB == <<"r", "e", "s", "i", "d", "e", "n", "t", "i", "a", "l">>
CatC == <<"c", "o", "m", "m", "e", "r", "c", "i", "a", "l">>
CatE == <<"n", "o", "n", "-", "c", "o", "m", "m", "e", "r", "c", "i", "a", "l">>

TagAll == <<"a", "l", "l">>
TagEmergency == <<"e", "m", "e", "r", "g", "e", "n", "c", "y">>
TagResidential == <<"r", "e", "s", "i", "d", "e", "n", "t", "i", "a", "l">>
TagCommercial == <<"c", "o", "m", "m", "e", "r", "c", "i", "a", "l">>
TagIndustrial == <<"i", "n", "d", "u", "s", "t", "r", "i", "a", "l">>

QEmpty == <<>>
QDrain == <<"d", "r", "a", "i", "n">>
QLeakUpper == <<"L", "E", "A", "K">>
QLeakSpace == <<" ", "l", "e", "a", "k">>
QBlank == <<" ", " ">>

\* Values the user leaves in the query field.
Queries == {QEmpty, QDrain, QLeakUpper, QLeakSpace, QBlank}

\* "scenario": the three cards A, B, C of the worked example, every card
\* tagged.  "freeform": free-form tags, one a substring of another.
\* "untagged": one card without a data-category attribute.  "single" (used
\* with Load More alone): a container of one card.
Pages == {"scenario", "freeform", "untagged"}

\* A card as written in the markup: text payload and data-category.
Card(text, hasCategory, category) ==
  [text |-> text, hasCategory |-> hasCategory, category |-> category]

\* The [data-searchable] cards of a page, in document order.
PageItems(p) ==
  IF p = "scenario"
  THEN << Card(TextA, TRUE, CatA), Card(TextB, TRUE, CatB), Card(TextC, TRUE, CatC) >>
  ELSE IF p = "freeform"
  THEN << Card(TextE, TRUE, CatE), Card(TextF, TRUE, CatC) >>
  ELSE IF p = "single"
  THEN << Card(TextB, TRUE, CatB) >>
  ELSE << Card(TextD, FALSE, <<>>), Card(TextF, TRUE, CatC) >>

\* The data-filter values of the [data-filter] buttons, in document order.
PageButtons(p) ==
  IF p = "scenario"
  THEN << TagAll, TagEmergency, TagResidential, TagCommercial >>
  ELSE << TagAll, TagCommercial, TagIndustrial >>

\* The button that carries class "active" in the markup: "All Services".
MarkupActive(p) == [b \in DOMAIN PageButtons(p) |-> PageButtons(p)[b] = TagAll]

\* ------------------------------------------------------------------------
\* State
\* ------------------------------------------------------------------------

VARIABLES
  page,             \* which markup was loaded
  items,            \* the [data-searchable] elements of the document, in order
  searchableItems,  \* initSearch: the static NodeList captured at init (node ids)
  searchValue,      \* searchInput.value
  active,           \* per [data-filter] button: carries class "active"
  noResults,        \* noResultsMessage.style.display
  loadBtn,          \* the [data-load-more] button: loading class, disabled, label
  loadTimer,        \* the 1000 ms timer of a Load More click: pending, originalText
  fadeQueue,        \* clones whose fade-in timer (index * 100 ms) is pending
  loads,            \* Load More completions so far
  nav,              \* .site-nav / .nav-toggle: open class, aria-expanded, document listener
  tabs,             \* the .tabs-container: classes, aria attributes, panel animation
  accordion,        \* the .accordion: data-multi-open and, per item, class, max-height, icon
  modals,           \* per .modal: carries class "active"
  lightbox,         \* the .lightbox: class "active", currentIndex, image shown, prev/next display
  bodyOverflow,     \* document.body.style.overflow
  focus,            \* document.activeElement, as focus() calls and the Tab key move it
  form,             \* the .contact-form: submit button, pending timers, what they did
  counter,          \* the [data-counter] element: attribute, interval, text shown
  boot,             \* the script's evaluation: browser, readyState, how far init() got
  map,              \* map.js: the #map container, its script's evaluation, the Leaflet map
  toasts,           \* the .notification elements created so far and their timers
  reinits,          \* calls of the init functions through window.FriendlyFix, per function
  lastEvent,        \* the handler that ran last, and the element it was bound to
  repeated,         \* the last handler re-ran the recomputation before it, inputs unchanged
  threw             \* the last handler ended in an uncaught exception

filterVars == << page, items, searchableItems, searchValue, active, noResults,
                 loadBtn, loadTimer, fadeQueue, loads >>

widgetVars == << tabs, accordion, modals, lightbox, bodyOverflow, focus >>

siteVars == << form, counter, boot, map, toasts, reinits >>

vars == << page, items, searchableItems, searchValue, active, noResults,
           loadBtn, loadTimer, fadeQueue, loads,
           nav, tabs, accordion, modals, lightbox, bodyOverflow, focus,
           form, counter, boot, map, toasts, reinits,
           lastEvent, repeated, threw >>

\* An event record: the listener that ran; button is the index of the
\* filter button for a tag click, of the item for an accordion click, of
\* the modal closed for a close click or Escape, and 0 otherwise.
Event(name, button) == [name |-> name, button |-> button]

Min(S) == CHOOSE x \in S : \A y \in S : x <= y

Range(f) == {f[i] : i \in DOMAIN f}

\* The part of the document the filter handlers read and write.
Doc == [items |-> items, value |-> searchValue, active |-> active,
        noResults |-> noResults, threw |-> FALSE]

\* filterButtons: the [data-filter] buttons captured by initSearch.
filterButtons == PageButtons(page)

\* The element of document d whose node id is n.
NodeAt(d, n) == d.items[CHOOSE i \in DOMAIN d.items : d.items[i].node = n]

\* ------------------------------------------------------------------------
\* Search and filter (initSearch)
\* ------------------------------------------------------------------------

\* The matched branch of both loops: display cleared, entrance animation set.
ShowItem(it) == [it EXCEPT !.display = "", !.animation = "fadeInUp 0.3s ease-out"]

\* The unmatched branch of both loops.
HideItem(it) == [it EXCEPT !.display = "none"]

\* checkFilter(item): the tag condition as the input handler evaluates it,
\* from the first button of the document that carries class "active".
checkFilter(d, it) ==
  LET activeFilter == {b \in DOMAIN filterButtons : d.active[b]}
  IN  IF activeFilter = {} THEN TRUE
      ELSE LET filter == filterButtons[Min(activeFilter)]
               categories == IF it.hasCategory THEN it.category ELSE <<>>
           IN  filter = TagAll \/ Includes(categories, filter)

\* checkSearch(item, query): the text condition as the click handler
\* evaluates it, on the raw field value.
checkSearch(it, query) ==
  IF query = <<>> THEN TRUE
  ELSE Includes(ToLowerCase(it.text), ToLowerCase(query))

\* The verdict of the input handler on one item.
InputVerdict(d, it) ==
  LET query == Trim(ToLowerCase(d.value))
      matchesSearch == Includes(ToLowerCase(it.text), query)
      matchesFilter == checkFilter(d, it)
  IN  IF matchesSearch /\ matchesFilter THEN "show" ELSE "hide"

\* The verdict of the click handler of the button with data-filter = filter
\* on one item; getAttribute returns null for a missing data-category and
\* null.includes raises a TypeError.
ClickVerdict(d, filter, it) ==
  IF filter # TagAll /\ ~it.hasCategory THEN "TypeError"
  ELSE LET matchesFilter == filter = TagAll \/ Includes(it.category, filter)
           matchesSearch == checkSearch(it, d.value)
       IN  IF matchesFilter /\ matchesSearch THEN "show" ELSE "hide"

\* The items of d after a forEach over searchableItems that applied the
\* verdicts v (one per listed node) to the nodes of list positions 1..upto
\* (the loop stops where it throws).
ApplyVerdicts(d, v, upto) ==
  LET done == {searchableItems[k] : k \in 1..upto}
  IN  [i \in DOMAIN d.items |->
         IF d.items[i].node \in done
         THEN IF v[d.items[i].node] = "show" THEN ShowItem(d.items[i])
                                            ELSE HideItem(d.items[i])
         ELSE d.items[i]]

\* visibleCount after a complete loop with verdicts v.
VisibleCount(v) ==
  Cardinality({k \in DOMAIN searchableItems : v[searchableItems[k]] = "show"})

\* The 'input' listener of the query field (d.value is e.target.value).
SearchInputHandler(d) ==
  LET v == [n \in Range(searchableItems) |-> InputVerdict(d, NodeAt(d, n))]
  IN  [d EXCEPT !.items = ApplyVerdicts(d, v, Len(searchableItems)),
                !.noResults = IF VisibleCount(v) = 0 THEN "block" ELSE "none"]

\* A click that only adds the class to the clicked button.
ActivateButtonKeepsOthers(d, b) == [d.active EXCEPT ![b] = TRUE]

\* A click that toggles the class of the clicked button.
ActivateButtonToggles(d, b) ==
  [x \in DOMAIN filterButtons |-> IF x = b THEN ~d.active[b] ELSE FALSE]

\* "Update active filter button": class "active" removed from every filter
\* button, then added to the clicked one.
ActivateButton(d, b) == [x \in DOMAIN filterButtons |-> x = b]

\* The loop of the click listener of button b over searchableItems and the
\* update of the no-results message; the loop ends at the first item whose
\* data-category is missing when b is not "all".
FilterItems(d, b) ==
  LET filter == filterButtons[b]
      v == [n \in Range(searchableItems) |-> ClickVerdict(d, filter, NodeAt(d, n))]
      throwing == {k \in DOMAIN searchableItems : v[searchableItems[k]] = "TypeError"}
  IN  IF throwing = {}
      THEN [d EXCEPT !.items = ApplyVerdicts(d, v, Len(searchableItems)),
                     !.noResults = IF VisibleCount(v) = 0 THEN "block" ELSE "none"]
      ELSE [d EXCEPT !.items = ApplyVerdicts(d, v, Min(throwing) - 1),
                     !.threw = TRUE]

\* A click listener that also empties the query field.
FilterClickClearsQuery(d, b) ==
  FilterItems([d EXCEPT !.active = ActivateButton(d, b), !.value = <<>>], b)

\* The 'click' listener of filter button b.
FilterClickHandler(d, b) ==
  FilterItems([d EXCEPT !.active = ActivateButton(d, b)], b)

\* createNoResultsMessage: the message element starts hidden.
createNoResultsMessage == "none"

\* ------------------------------------------------------------------------
\* Dynamic content (initDynamicContent)
\* ------------------------------------------------------------------------

\* Math.min(3, items.length): the size of a Load More batch.
CloneBatch == 3

\* cloneNode(true) of an item, appended as node n with opacity '0'.
CloneItem(it, n) == [it EXCEPT !.node = n, !.opacity = "0"]

\* Math.min(3, items.length)
BatchSize(its) == IF Len(its) < CloneBatch THEN Len(its) ELSE CloneBatch

\* A timer callback that appends nothing.
AppendNone(its) == its

\* A timer callback that appends the clones in reverse order.
AppendClonesReversed(its) ==
  its \o [i \in 1..BatchSize(its) |->
            CloneItem(its[BatchSize(its) + 1 - i], Len(its) + i)]

\* The container's items after the timer callback appended the clones.
AppendClones(its) ==
  its \o [i \in 1..BatchSize(its) |-> CloneItem(its[i], Len(its) + i)]

\* ------------------------------------------------------------------------
\* Mobile navigation (initMobileNav, closeNavOnOutsideClick)
\* ------------------------------------------------------------------------

NavClosed(n) == [n EXCEPT !.open = FALSE, !.ariaExpanded = "false", !.listener = FALSE]

\* The toggle's 'click' listener: classList.toggle('open'), aria-expanded,
\* and the document listener added or removed with it.
NavToggleClick(n) ==
  LET isOpen == ~n.open
  IN  [open |-> isOpen, ariaExpanded |-> IF isOpen THEN "true" ELSE "false",
       listener |-> isOpen]

\* The 'click' listener of a link inside the nav.
NavLinkClick(n) == NavClosed(n)

\* closeNavOnOutsideClick for a click whose target is outside nav and
\* toggle; it runs only while it is registered on the document.
closeNavOnOutsideClick(n) == IF n.listener THEN NavClosed(n) ELSE n

\* Escape removing the open class without writing aria-expanded.
NavEscapeKeepsAria(n) == IF n.open THEN [n EXCEPT !.open = FALSE] ELSE n

\* initKeyboardNavigation: Escape closes an open nav (the document
\* listener stays registered).
NavEscape(n) ==
  IF n.open THEN [n EXCEPT !.open = FALSE, !.ariaExpanded = "false"] ELSE n

\* ------------------------------------------------------------------------
\* Tabs (initTabs)
\* ------------------------------------------------------------------------

\* Tab buttons (and panels) of the container: Repairs, Installation,
\* Emergency.
NTabs == 3

TabIndex == 0..(NTabs - 1)

\* The click listener without the loops that deactivate every button and
\* panel first.
TabClickKeepsOthers(t, index) ==
  [button |-> [t.button EXCEPT ![index] = TRUE],
   ariaSelected |-> [t.ariaSelected EXCEPT ![index] = "true"],
   panel |-> [t.panel EXCEPT ![index] = TRUE],
   ariaHidden |-> [t.ariaHidden EXCEPT ![index] = "false"],
   animation |-> [t.animation EXCEPT ![index] = "fadeInUp 0.3s ease-out"]]

\* The 'click' listener of tab button index.
TabClick(t, index) ==
  [button |-> [j \in TabIndex |-> j = index],
   ariaSelected |-> [j \in TabIndex |-> IF j = index THEN "true" ELSE "false"],
   panel |-> [j \in TabIndex |-> j = index],
   ariaHidden |-> [j \in TabIndex |-> IF j = index THEN "false" ELSE "true"],
   animation |-> [t.animation EXCEPT ![index] = "fadeInUp 0.3s ease-out"]]

\* The keys the 'keydown' listener of a tab button acts on.
TabKeys == {"ArrowRight", "ArrowLeft", "Home", "End"}

\* newIndex with the arrows stopping at the ends.
TabKeyIndexNoWrap(key, index) ==
  CASE key = "ArrowRight" -> IF index < NTabs - 1 THEN index + 1 ELSE index
    [] key = "ArrowLeft" -> IF index > 0 THEN index - 1 ELSE index
    [] key = "Home" -> 0
    [] key = "End" -> NTabs - 1
    [] OTHER -> -1

\* newIndex of the 'keydown' listener of tab button index; -1 stands for
\* the early return on any other key.
TabKeyIndex(key, index) ==
  CASE key = "ArrowRight" -> (index + 1) % NTabs
    [] key = "ArrowLeft" -> (index - 1 + NTabs) % NTabs
    [] key = "Home" -> 0
    [] key = "End" -> NTabs - 1
    [] OTHER -> -1

\* ------------------------------------------------------------------------
\* Accordion (initAccordions)
\* ------------------------------------------------------------------------

\* The header click without the loop that closes the other items.
AccordionHeaderClickKeepsOthers(a, i) ==
  [a EXCEPT !.item[i] =
     IF a.item[i].active
     THEN [active |-> FALSE, maxHeight |-> "", icon |-> "rotate(0deg)"]
     ELSE [active |-> TRUE, maxHeight |-> "px", icon |-> "rotate(180deg)"]]

\* The header click with the loop that closes the other items run for
\* every accordion.
AccordionHeaderClickClosesOthers(a, i) ==
  [a EXCEPT !.item = [j \in DOMAIN a.item |->
     IF j # i
     THEN [active |-> FALSE, maxHeight |-> "", icon |-> "rotate(0deg)"]
     ELSE IF a.item[i].active
          THEN [active |-> FALSE, maxHeight |-> "", icon |-> "rotate(0deg)"]
          ELSE [active |-> TRUE, maxHeight |-> "px", icon |-> "rotate(180deg)"]]]

\* A header listener that closes the clicked item without clearing the
\* max-height of its content.
AccordionHeaderClickKeepsHeight(a, i) ==
  LET isOpen == a.item[i].active
      others == IF a.multiOpen THEN a.item
                ELSE [j \in DOMAIN a.item |->
                        IF j # i
                        THEN [active |-> FALSE, maxHeight |-> "", icon |-> "rotate(0deg)"]
                        ELSE a.item[j]]
  IN  [a EXCEPT !.item =
         [others EXCEPT ![i] =
            IF isOpen
            THEN [active |-> FALSE, maxHeight |-> a.item[i].maxHeight,
                  icon |-> "rotate(0deg)"]
            ELSE [active |-> TRUE, maxHeight |-> "px", icon |-> "rotate(180deg)"]]]

\* The 'click' listener of the header of item i.
AccordionHeaderClick(a, i) ==
  LET isOpen == a.item[i].active
      others == IF a.multiOpen THEN a.item
                ELSE [j \in DOMAIN a.item |->
                        IF j # i
                        THEN [active |-> FALSE, maxHeight |-> "", icon |-> "rotate(0deg)"]
                        ELSE a.item[j]]
  IN  [a EXCEPT !.item =
         [others EXCEPT ![i] =
            IF isOpen
            THEN [active |-> FALSE, maxHeight |-> "", icon |-> "rotate(0deg)"]
            ELSE [active |-> TRUE, maxHeight |-> "px", icon |-> "rotate(180deg)"]]]

\* ------------------------------------------------------------------------
\* Modals (initModals, closeModal)
\* ------------------------------------------------------------------------

\* An element of the page, for document.activeElement.
Element(kind, index) == << kind, index >>

\* The focusable elements of the page in document order: the nav toggle,
\* the tab buttons, the modal triggers and each modal's close button.
FocusOrder ==
  << Element("nav-toggle", 0) >>
  \o [j \in 1..NTabs |-> Element("tab", j - 1)]
  \o [m \in 1..NModals |-> Element("modal-trigger", m)]
  \o [m \in 1..NModals |-> Element("modal-close", m)]

\* The place of element e in the order, 0 for the body.
FocusPosition(e) ==
  IF \E k \in DOMAIN FocusOrder : FocusOrder[k] = e
  THEN CHOOSE k \in DOMAIN FocusOrder : FocusOrder[k] = e
  ELSE 0

\* Where the browser moves focus from e on Tab (shift FALSE) or Shift+Tab:
\* no listener of the script handles the key.
FocusNext(e, shift) ==
  LET k == FocusPosition(e)
      n == Len(FocusOrder)
  IN  IF shift THEN FocusOrder[IF k <= 1 THEN n ELSE k - 1]
      ELSE FocusOrder[IF k = n THEN 1 ELSE k + 1]

\* closeModal(modal) on the class list of the modals.
closeModal(ms, m) == [ms EXCEPT ![m] = FALSE]

\* document.querySelector('.modal.active'): the first active modal, 0 if none.
ActiveModal(ms) ==
  IF \E m \in DOMAIN ms : ms[m] THEN Min({m \in DOMAIN ms : ms[m]}) ELSE 0

\* ------------------------------------------------------------------------
\* Lightbox (initLightbox)
\* ------------------------------------------------------------------------

\* galleryImages: the [data-lightbox] images captured at init, 0-based.
ImageIndex == 0..(NImages - 1)

\* showLightboxImage(): source, caption and the prev/next buttons follow
\* currentIndex when it names a gallery image.
showLightboxImage(lb) ==
  IF lb.currentIndex \in ImageIndex
  THEN [lb EXCEPT !.shown = lb.currentIndex,
                  !.caption = lb.currentIndex,
                  !.prev = IF lb.currentIndex > 0 THEN "block" ELSE "none",
                  !.next = IF lb.currentIndex < NImages - 1 THEN "block" ELSE "none"]
  ELSE lb

\* The markup puts gallery image i inside card i + 1 of the container;
\* cloneNode(true) copies the image with its card.  The gallery image a
\* card (or clone) holds, -1 if none.
ImageInCard(p, it) ==
  IF \E i \in ImageIndex : i + 1 <= Len(PageItems(p)) /\ PageItems(p)[i + 1].text = it.text
  THEN CHOOSE i \in ImageIndex :
         i + 1 <= Len(PageItems(p)) /\ PageItems(p)[i + 1].text = it.text
  ELSE -1

\* The 'click' listener of gallery image index.
LightboxOpen(lb, index) ==
  [showLightboxImage([lb EXCEPT !.currentIndex = index]) EXCEPT !.active = TRUE]

\* closeLightbox()
closeLightbox(lb) == [lb EXCEPT !.active = FALSE]

\* The 'click' listener of the prev button.
LightboxPrev(lb) ==
  IF lb.currentIndex > 0
  THEN showLightboxImage([lb EXCEPT !.currentIndex = lb.currentIndex - 1])
  ELSE lb

\* The next button going round to the first image after the last.
LightboxNextWraps(lb) ==
  showLightboxImage([lb EXCEPT !.currentIndex = (lb.currentIndex + 1) % NImages])

\* The 'click' listener of the next button.
LightboxNext(lb) ==
  IF lb.currentIndex < NImages - 1
  THEN showLightboxImage([lb EXCEPT !.currentIndex = lb.currentIndex + 1])
  ELSE lb

\* ------------------------------------------------------------------------
\* Contact form (initContactForm)
\* ------------------------------------------------------------------------

\* Submit events the model follows.
MaxSubmits == 3

\* The label of the submit button in the markup.
SubmitLabel == "Send Message"

\* The form as the markup leaves it.
FormInit ==
  [button |-> [loading |-> FALSE, text |-> SubmitLabel, disabled |-> FALSE],
   timers |-> <<>>, submits |-> 0, prevented |-> 0, notifications |-> 0,
   resets |-> 0, dirty |-> FALSE]

\* The 'submit' listener: preventDefault, the button's loading state, and
\* a 2000 ms timer whose closure holds the label read from the button.
FormSubmit(f) ==
  [f EXCEPT !.prevented = @ + 1,
            !.submits = @ + 1,
            !.timers = Append(@, f.button.text),
            !.button = [loading |-> TRUE, text |-> "Sending...", disabled |-> TRUE]]

\* The timer callback without the notification.
FormTimerSilent(f) ==
  [f EXCEPT !.button = [loading |-> FALSE, text |-> Head(f.timers), disabled |-> FALSE],
            !.timers = Tail(@),
            !.resets = @ + 1,
            !.dirty = FALSE]

\* The callback of the oldest pending timer: the button leaves the loading
\* state with the closure's label, one success toast, one form.reset().
FormTimer(f) ==
  [f EXCEPT !.button = [loading |-> FALSE, text |-> Head(f.timers), disabled |-> FALSE],
            !.timers = Tail(@),
            !.notifications = @ + 1,
            !.resets = @ + 1,
            !.dirty = FALSE]

\* ------------------------------------------------------------------------
\* Toast notifications (showNotification)
\* ------------------------------------------------------------------------

\* The delays of the three timers of a toast, in ms.
SlideInMs == 100

SlideOutMs == 5000

RemoveMs == 300

\* API calls of showNotification that the model follows.
MaxToasts == 1

\* No toast created, no timer pending, none removed.  list holds every
\* toast created, in creation order; queue the pending timers in the
\* order they are due; removed the toasts in the order they left the
\* document.
ToastsInit == [list |-> <<>>, queue |-> <<>>, removed |-> <<>>]

\* Where the timer queue can take a timer of delay d set now: a pending
\* timer of the same or a shorter delay was set earlier and is due no
\* later, so it stays ahead; one of a longer delay may be due before or
\* after.  p is the number of timers ahead of the new one.
InsertPositions(q, d) ==
  {p \in 0..Len(q) : \A j \in (p + 1)..Len(q) : q[j].delay > d}

\* setTimeout: the queue with timer tm behind its first p timers.
SetTimeout(q, tm, p) == SubSeq(q, 1, p) \o << tm >> \o SubSeq(q, p + 1, Len(q))

Timer(toast, kind, delay) == [toast |-> toast, kind |-> kind, delay |-> delay]

\* showNotification: one element, off-screen, appended to the body; one
\* timer to slide it in, one to slide it out.
ShowNotification(t, p) ==
  LET id == Len(t.list) + 1
      q1 == SetTimeout(t.queue, Timer(id, "slideIn", SlideInMs), p)
      q2 == SetTimeout(q1, Timer(id, "slideOut", SlideOutMs),
                       CHOOSE p2 \in InsertPositions(q1, SlideOutMs) : TRUE)
  IN  [t EXCEPT !.list = Append(@, [inDocument |-> TRUE,
                                    transform |-> "translateX(100%)",
                                    removals |-> 0]),
                !.queue = q2]

\* The slide-out callback without the timer that removes the element.
ToastTimerKeepsElement(t, p) ==
  LET h == Head(t.queue)
  IN  IF h.kind = "slideIn"
      THEN [t EXCEPT !.queue = Tail(@), !.list[h.toast].transform = "translateX(0)"]
      ELSE [t EXCEPT !.queue = Tail(@), !.list[h.toast].transform = "translateX(100%)"]

\* The callback of the timer that is due first.  Slide-in and slide-out
\* write the transform, slide-out sets the removal timer (behind p
\* timers of the queue), the removal timer takes the element out of the
\* document if it is still in it.
ToastTimer(t, p) ==
  LET h == Head(t.queue)
      rest == Tail(t.queue)
  IN  IF h.kind = "slideIn"
      THEN [t EXCEPT !.queue = rest, !.list[h.toast].transform = "translateX(0)"]
      ELSE IF h.kind = "slideOut"
      THEN [t EXCEPT !.queue = SetTimeout(rest, Timer(h.toast, "remove", RemoveMs), p),
                     !.list[h.toast].transform = "translateX(100%)"]
      ELSE IF t.list[h.toast].inDocument
      THEN [t EXCEPT !.queue = rest,
                     !.list[h.toast].inDocument = FALSE,
                     !.list[h.toast].removals = @ + 1,
                     !.removed = Append(@, h.toast)]
      ELSE [t EXCEPT !.queue = rest]

\* ------------------------------------------------------------------------
\* The public API (window.FriendlyFix)
\* ------------------------------------------------------------------------

\* The init functions of window.FriendlyFix that bind click or key
\* listeners.
InitFunctions ==
  {"initTabs", "initAccordions", "initModals", "initLightbox", "initSearch",
   "initDynamicContent"}

\* Calls of one init function through the API that the model follows.
MaxReinits == 1

\* addEventListener with a new closure adds a listener each time the init
\* function runs: r[f] calls through the API after init() leave r[f] + 1
\* listeners on each element the function binds.
Listeners(r, f) == r[f] + 1

RECURSIVE TabClicks(_, _, _)
\* The n 'click' listeners of tab button index, in registration order.
TabClicks(t, index, n) ==
  IF n = 0 THEN t ELSE TabClicks(TabClick(t, index), index, n - 1)

RECURSIVE AccordionHeaderClicks(_, _, _)
\* The n 'click' listeners of the header of item i, in registration order.
AccordionHeaderClicks(a, i, n) ==
  IF n = 0 THEN a ELSE AccordionHeaderClicks(AccordionHeaderClick(a, i), i, n - 1)

\* ------------------------------------------------------------------------
\* Interactive map (map.js: initMap)
\* ------------------------------------------------------------------------

\* zoom: 13 of the map options.
StartZoom == 13

\* maxZoom: 19 of the tile layer.
MaxZoom == 19

\* The page before map.js is evaluated: with or without the #map
\* container, the document still loading or already parsed.  pointer is
\* the last of the map's click and mouseout events, "none" before both.
MapInit(container, readyState) ==
  [container |-> container, readyState |-> readyState, phase |-> "parsing",
   created |-> FALSE, scrollWheelZoom |-> FALSE, zoom |-> 0, pointer |-> "none"]

\* initMap(): nothing without the container; otherwise L.map with
\* zoom 13 and scrollWheelZoom: false.
InitMap(m) ==
  IF ~m.container
  THEN [m EXCEPT !.phase = "done"]
  ELSE [m EXCEPT !.phase = "done", !.created = TRUE,
                 !.scrollWheelZoom = FALSE, !.zoom = StartZoom]

\* The map's 'click' listener.
MapClick(m) == [m EXCEPT !.scrollWheelZoom = TRUE]

\* A 'mouseout' listener that leaves scroll-wheel zoom as it is.
MapMouseOutKeepsZoom(m) == m

\* The map's 'mouseout' listener.
MapMouseOut(m) == [m EXCEPT !.scrollWheelZoom = FALSE]

\* A wheel step over the map by delta levels: the map zooms only while
\* scroll-wheel zoom is enabled, between level 0 and maxZoom.
MapWheel(m, delta) ==
  IF m.scrollWheelZoom /\ m.zoom + delta >= 0 /\ m.zoom + delta <= MaxZoom
  THEN [m EXCEPT !.zoom = @ + delta]
  ELSE m

\* A press of the zoom control (zoomControl: true), one level in or out.
MapZoomControl(m, delta) ==
  IF m.zoom + delta >= 0 /\ m.zoom + delta <= MaxZoom
  THEN [m EXCEPT !.zoom = @ + delta]
  ELSE m

\* The page of an evaluated map.js with the container present.
MapLoaded == InitMap(MapInit(TRUE, "interactive"))

\* ------------------------------------------------------------------------
\* Counter animation (initAdvancedAnimations, animateCounter)
\* ------------------------------------------------------------------------

\* animateCounter(counter, 0, target, 2000) ticks every 16 ms.
Duration == 2000

TickMs == 16

\* duration / 16: the ticks after which current reaches end.
CounterTicks == Duration \div TickMs

\* A JavaScript number: NaN or an integer.
Num(v) == [nan |-> FALSE, value |-> v]

NaN == [nan |-> TRUE, value |-> 0]

Digits == << "0", "1", "2", "3", "4", "5", "6", "7", "8", "9" >>

IsDigit(c) == \E d \in DOMAIN Digits : Digits[d] = c

DigitValue(c) == (CHOOSE d \in DOMAIN Digits : Digits[d] = c) - 1

\* The value of a sequence of digits.
RECURSIVE DecimalValue(_)
DecimalValue(s) ==
  IF s = <<>> THEN 0
  ELSE 10 * DecimalValue(SubSeq(s, 1, Len(s) - 1)) + DigitValue(s[Len(s)])

\* parseInt(s): the number its leading digits spell, NaN if it has none.
ParseInt(s) ==
  LET lead == {n \in 0..Len(s) : \A k \in 1..n : IsDigit(s[k])}
      n == CHOOSE x \in lead : \A y \in lead : y <= x
  IN  IF n = 0 THEN NaN ELSE Num(DecimalValue(SubSeq(s, 1, n)))

\* The data-counter attributes of the pages: "1500", "3", "0" and an
\* attribute that spells no number.
CounterAttrs ==
  { << "1", "5", "0", "0" >>, << "3" >>, << "0" >>, << "s", "o", "o", "n" >> }

\* The counter element as the markup leaves it: text "0", observed by
\* the counterObserver once init() has run.
CounterInit(attr) ==
  [attr |-> attr, observed |-> TRUE, started |-> 0, running |-> FALSE,
   ticks |-> 0, text |-> Num(0)]

\* The observer's callback with the element intersecting: animateCounter
\* starts the interval and the element is unobserved.
CounterIntersect(c) ==
  [c EXCEPT !.observed = FALSE, !.started = @ + 1, !.running = TRUE, !.ticks = 0]

\* One tick of the interval, the k-th: current is k * end / (duration / 16);
\* a comparison with NaN is false.
CounterTick(c) ==
  LET end == ParseInt(c.attr)
      k == c.ticks + 1
  IN  IF ~end.nan /\ k * end.value >= CounterTicks * end.value
      THEN [c EXCEPT !.ticks = k, !.text = end, !.running = FALSE]
      ELSE [c EXCEPT !.ticks = k,
                     !.text = IF end.nan THEN NaN
                              ELSE Num((k * end.value) \div CounterTicks)]

\* ------------------------------------------------------------------------
\* Initialisation (init, module initialisation)
\* ------------------------------------------------------------------------

\* The steps of init(), in call order.
InitSteps ==
  << "initMobileNav", "initSmoothScrolling", "initContactForm",
     "initScrollAnimations", "initLazyLoading", "initKeyboardNavigation",
     "initTabs", "initAccordions", "initModals", "initLightbox", "initSearch",
     "initDynamicContent", "initAdvancedAnimations" >>

\* Step s returns normally: initScrollAnimations and initLazyLoading test
\* 'IntersectionObserver' in window, initAdvancedAnimations constructs one
\* untested.
StepCompletes(s, hasIO) == s # "initAdvancedAnimations" \/ hasIO

\* The steps of init() that returned before one threw.
StepsRun(hasIO) ==
  LET bad == {k \in DOMAIN InitSteps : ~StepCompletes(InitSteps[k], hasIO)}
  IN  IF bad = {} THEN Len(InitSteps) ELSE Min(bad) - 1

\* init(): body gets class "loaded" after the last step.
RunInit(b) ==
  LET n == StepsRun(b.hasIO)
  IN  [b EXCEPT !.steps = n,
                !.loaded = (n = Len(InitSteps)),
                !.phase = IF n = Len(InitSteps) THEN "done" ELSE "failed"]

\* The page of a browser with IntersectionObserver after init().
BootDone ==
  [hasIO |-> TRUE, readyState |-> "complete", phase |-> "done",
   steps |-> Len(InitSteps), loaded |-> TRUE, api |-> TRUE]

\* ------------------------------------------------------------------------
\* Initial state: the page after init()
\* ------------------------------------------------------------------------

InitItem(c, n) ==
  [node |-> n, text |-> c.text, hasCategory |-> c.hasCategory,
   category |-> c.category, display |-> "", animation |-> "",
   opacity |-> "", transition |-> ""]

InitPage(p) ==
  /\ page = p
  /\ items = [i \in DOMAIN PageItems(p) |-> InitItem(PageItems(p)[i], i)]
  /\ searchableItems = [i \in DOMAIN PageItems(p) |-> i]
  /\ searchValue = <<>>
  /\ active = MarkupActive(p)
  /\ noResults = createNoResultsMessage
  /\ loadBtn = [loading |-> FALSE, disabled |-> FALSE, text |-> "Load More Services"]
  /\ loadTimer = [pending |-> FALSE, originalText |-> ""]
  /\ fadeQueue = <<>>
  /\ loads = 0
  /\ lastEvent = Event("init", 0)
  /\ repeated = FALSE
  /\ threw = FALSE

\* The widgets as the markup and init() leave them; multi is the
\* accordion's data-multi-open.
InitMarkup(multi) ==
  /\ nav = [open |-> FALSE, ariaExpanded |-> "false", listener |-> FALSE]
  /\ tabs = [button |-> [j \in TabIndex |-> j = 0],
             ariaSelected |-> [j \in TabIndex |-> ""],
             panel |-> [j \in TabIndex |-> j = 0],
             ariaHidden |-> [j \in TabIndex |-> ""],
             animation |-> [j \in TabIndex |-> ""]]
  /\ accordion = [multiOpen |-> multi,
                  item |-> [i \in 1..NAccordionItems |->
                              [active |-> FALSE, maxHeight |-> "", icon |-> ""]]]
  /\ modals = [m \in 1..NModals |-> FALSE]
  /\ lightbox = [active |-> FALSE, currentIndex |-> 0, shown |-> -1, caption |-> -1,
                 prev |-> "", next |-> ""]
  /\ bodyOverflow = ""
  /\ focus = Element("body", 0)

\* No toast yet, no call through window.FriendlyFix yet, map.js evaluated.
InitRest ==
  /\ map = MapLoaded
  /\ toasts = ToastsInit
  /\ reinits = [f \in InitFunctions |-> 0]

\* Form and counter of an initialised page.
InitLoaded ==
  /\ form = FormInit
  /\ counter = CounterInit(<< "1", "5", "0", "0" >>)
  /\ boot = BootDone
  /\ InitRest

InitWidgets(multi) == InitMarkup(multi) /\ InitLoaded

\* The page before the script is evaluated: a browser with or without
\* IntersectionObserver, the document still loading or already parsed.
InitBoot ==
  /\ form = FormInit
  /\ \E attr \in CounterAttrs : counter = CounterInit(attr)
  /\ \E io \in BOOLEAN : \E rs \in {"loading", "interactive"} :
        boot = [hasIO |-> io, readyState |-> rs, phase |-> "parsing",
                steps |-> 0, loaded |-> FALSE, api |-> FALSE]
  /\ InitRest

Init == (\E p \in Pages : InitPage(p)) /\ InitWidgets(FALSE)

\* The worked example's page while the script is still to be evaluated.
InitSite == InitPage("scenario") /\ InitMarkup(FALSE) /\ InitBoot

\* ------------------------------------------------------------------------
\* Events
\* ------------------------------------------------------------------------

\* What a filter handler leaves in the document.
Commit(d) ==
  /\ items' = d.items
  /\ searchValue' = d.value
  /\ active' = d.active
  /\ noResults' = d.noResults
  /\ threw' = d.threw

\* The user edits the query field to v (or an input event is dispatched
\* with the field unchanged): the 'input' listener runs.
OnSearchInput(v) ==
  /\ Commit(SearchInputHandler([Doc EXCEPT !.value = v]))
  /\ lastEvent' = Event("input", 0)
  /\ repeated' = (lastEvent.name = "input" /\ v = searchValue)
  /\ UNCHANGED << page, searchableItems, loadBtn, loadTimer, fadeQueue, loads >>
  /\ UNCHANGED << nav, widgetVars, siteVars >>

\* The user clicks filter button b: its 'click' listener runs, and the
\* click bubbles to the document.
OnFilterClick(b) ==
  /\ Commit(FilterClickHandler(Doc, b))
  /\ lastEvent' = Event("filter", b)
  /\ repeated' = (lastEvent = Event("filter", b))
  /\ nav' = closeNavOnOutsideClick(nav)
  /\ UNCHANGED << page, searchableItems, loadBtn, loadTimer, fadeQueue, loads >>
  /\ UNCHANGED << widgetVars, siteVars >>

\* The user clicks Load More (a disabled button dispatches no click); the
\* click bubbles to the document.
OnLoadMoreClick ==
  /\ ~loadBtn.disabled
  /\ Len(items) + BatchSize(items) <= MaxItems
  /\ loadTimer' = [pending |-> TRUE, originalText |-> loadBtn.text]
  /\ loadBtn' = [loading |-> TRUE, disabled |-> TRUE, text |-> "Loading..."]
  /\ lastEvent' = Event("loadClick", 0)
  /\ repeated' = FALSE
  /\ threw' = FALSE
  /\ nav' = closeNavOnOutsideClick(nav)
  /\ UNCHANGED << page, items, searchableItems, searchValue, active, noResults,
                  fadeQueue, loads >>
  /\ UNCHANGED << widgetVars, siteVars >>

\* The 1000 ms timer of Load More fires.  The fade-in timers of an earlier
\* batch (at most 200 ms) have fired by then.
OnLoadMoreTimer ==
  /\ loadTimer.pending
  /\ fadeQueue = <<>>
  /\ items' = AppendClones(items)
  /\ fadeQueue' = [i \in 1..(Len(items') - Len(items)) |-> Len(items) + i]
  /\ loadBtn' = [loading |-> FALSE, disabled |-> FALSE, text |-> loadTimer.originalText]
  /\ loadTimer' = [loadTimer EXCEPT !.pending = FALSE]
  /\ loads' = loads + 1
  /\ lastEvent' = Event("loadTimer", 0)
  /\ repeated' = FALSE
  /\ threw' = FALSE
  /\ UNCHANGED << page, searchableItems, searchValue, active, noResults >>
  /\ UNCHANGED << nav, widgetVars, siteVars >>

\* The fade-in timer of the oldest waiting clone fires.
OnFadeTimer ==
  /\ fadeQueue # <<>>
  /\ items' = [i \in DOMAIN items |->
                 IF items[i].node = Head(fadeQueue)
                 THEN [items[i] EXCEPT !.transition = "opacity 0.5s ease-out",
                                       !.opacity = "1"]
                 ELSE items[i]]
  /\ fadeQueue' = Tail(fadeQueue)
  /\ lastEvent' = Event("fade", 0)
  /\ repeated' = FALSE
  /\ threw' = FALSE
  /\ UNCHANGED << page, searchableItems, searchValue, active, noResults,
                  loadBtn, loadTimer, loads >>
  /\ UNCHANGED << nav, widgetVars, siteVars >>

\* What an event outside search and Load More leaves in the history.
WidgetEventAt(name, index) ==
  /\ lastEvent' = Event(name, index)
  /\ repeated' = FALSE
  /\ threw' = FALSE
  /\ UNCHANGED << filterVars, siteVars >>

WidgetEvent(name) == WidgetEventAt(name, 0)

\* The user clicks the nav toggle (the click bubbles to the document, where
\* closeNavOnOutsideClick finds the target inside the toggle).
OnNavToggleClick ==
  /\ nav' = NavToggleClick(nav)
  /\ WidgetEvent("navToggle")
  /\ UNCHANGED widgetVars

\* The user clicks a link of the nav (at desktop widths the links are
\* reachable with the nav closed as well).
OnNavLinkClick ==
  /\ nav' = NavLinkClick(nav)
  /\ WidgetEvent("navLink")
  /\ UNCHANGED widgetVars

\* The user clicks a Load More button whose data-target matches no
\* element: its listener returns at once; the click bubbles to the
\* document.
OnLoadMoreClickNoTarget ==
  /\ nav' = closeNavOnOutsideClick(nav)
  /\ WidgetEvent("loadClickNoTarget")
  /\ UNCHANGED widgetVars

\* The user clicks tab button index.
OnTabClick(index) ==
  /\ tabs' = TabClicks(tabs, index, Listeners(reinits, "initTabs"))
  /\ nav' = closeNavOnOutsideClick(nav)
  /\ WidgetEvent("tab")
  /\ UNCHANGED << accordion, modals, lightbox, bodyOverflow, focus >>

\* The user clicks the header of accordion item i.
OnAccordionHeaderClick(i) ==
  /\ accordion' = AccordionHeaderClicks(accordion, i, Listeners(reinits, "initAccordions"))
  /\ nav' = closeNavOnOutsideClick(nav)
  /\ WidgetEventAt("accordion", i)
  /\ UNCHANGED << tabs, modals, lightbox, bodyOverflow, focus >>

\* The user clicks the trigger of modal m: the modal opens, body scroll is
\* locked and the modal's first focusable element (its close button) gets
\* focus.
OnModalTriggerClick(m) ==
  /\ modals' = [modals EXCEPT ![m] = TRUE]
  /\ bodyOverflow' = "hidden"
  /\ focus' = Element("modal-close", m)
  /\ nav' = closeNavOnOutsideClick(nav)
  /\ WidgetEvent("modalOpen")
  /\ UNCHANGED << tabs, accordion, lightbox >>

\* The user clicks the close button or the backdrop of the open modal m.
OnModalCloseClick(m) ==
  /\ modals[m]
  /\ modals' = closeModal(modals, m)
  /\ bodyOverflow' = ""
  /\ nav' = closeNavOnOutsideClick(nav)
  /\ WidgetEventAt("modalClose", m)
  /\ UNCHANGED << tabs, accordion, lightbox, focus >>

\* The user clicks gallery image index.
OnLightboxImageClick(index) ==
  /\ lightbox' = LightboxOpen(lightbox, index)
  /\ bodyOverflow' = "hidden"
  /\ nav' = closeNavOnOutsideClick(nav)
  /\ WidgetEventAt("lightboxOpen", index)
  /\ UNCHANGED << tabs, accordion, modals, focus >>

\* The user clicks the [data-lightbox] image inside the clone at place p of
\* the container.  cloneNode copies no listener and galleryImages was
\* captured by init: only the document's click listener runs.
OnCloneImageClick(p) ==
  /\ p \in DOMAIN items
  /\ items[p].node > Len(searchableItems)
  /\ ImageInCard(page, items[p]) # -1
  /\ nav' = closeNavOnOutsideClick(nav)
  /\ WidgetEventAt("cloneImageClick", p)
  /\ UNCHANGED widgetVars

\* The user clicks the close button or the backdrop of the open lightbox.
OnLightboxCloseClick ==
  /\ lightbox.active
  /\ lightbox' = closeLightbox(lightbox)
  /\ bodyOverflow' = ""
  /\ nav' = closeNavOnOutsideClick(nav)
  /\ WidgetEvent("lightboxClose")
  /\ UNCHANGED << tabs, accordion, modals, focus >>

\* The user clicks the prev button of the open lightbox.
OnLightboxPrevClick ==
  /\ lightbox.active
  /\ lightbox' = LightboxPrev(lightbox)
  /\ nav' = closeNavOnOutsideClick(nav)
  /\ WidgetEvent("lightboxPrev")
  /\ UNCHANGED << tabs, accordion, modals, bodyOverflow, focus >>

\* The user clicks the next button of the open lightbox.
OnLightboxNextClick ==
  /\ lightbox.active
  /\ lightbox' = LightboxNext(lightbox)
  /\ nav' = closeNavOnOutsideClick(nav)
  /\ WidgetEvent("lightboxNext")
  /\ UNCHANGED << tabs, accordion, modals, bodyOverflow, focus >>

\* The user presses Escape: the document's keydown listeners run in the
\* order init() registered them (keyboard navigation, modals, lightbox).
OnEscapeKey ==
  /\ nav' = NavEscape(nav)
  /\ focus' = IF nav.open THEN Element("nav-toggle", 0) ELSE focus
  /\ modals' = IF ActiveModal(modals) # 0 THEN closeModal(modals, ActiveModal(modals))
                                          ELSE modals
  /\ lightbox' = IF lightbox.active THEN closeLightbox(lightbox) ELSE lightbox
  /\ bodyOverflow' = IF ActiveModal(modals) # 0 \/ lightbox.active THEN "" ELSE bodyOverflow
  /\ WidgetEventAt("escape", ActiveModal(modals))
  /\ UNCHANGED << tabs, accordion >>

\* The user presses an arrow key, Home or End. The 'keydown' listener of a
\* tab button runs when that button has focus: it clicks the button at
\* newIndex (the click bubbles to the document) and focuses it. The key
\* then reaches the document's listeners, of which the lightbox's acts
\* on the arrows while the lightbox is active.
OnKeyDown(key) ==
  LET newIndex == IF focus[1] = "tab" THEN TabKeyIndex(key, focus[2]) ELSE -1
  IN  /\ tabs' = IF newIndex # -1
                THEN TabClicks(tabs, newIndex, Listeners(reinits, "initTabs"))
                ELSE tabs
      /\ focus' = IF newIndex # -1 THEN Element("tab", newIndex) ELSE focus
      /\ nav' = IF newIndex # -1 THEN closeNavOnOutsideClick(nav) ELSE nav
      /\ lightbox' = IF lightbox.active /\ key = "ArrowLeft" THEN LightboxPrev(lightbox)
                     ELSE IF lightbox.active /\ key = "ArrowRight" THEN LightboxNext(lightbox)
                     ELSE lightbox
      /\ WidgetEvent(key)
      /\ UNCHANGED << accordion, modals, bodyOverflow >>

\* The user presses Tab or Shift+Tab: no listener acts on the key and the
\* browser moves focus to the next or previous focusable element.
OnFocusKey(shift) ==
  /\ focus' = FocusNext(focus, shift)
  /\ WidgetEvent(IF shift THEN "Shift+Tab" ELSE "Tab")
  /\ UNCHANGED << nav, tabs, accordion, modals, lightbox, bodyOverflow >>

\* What an event of form, counter or initialisation leaves elsewhere.
SiteEvent(name) ==
  /\ lastEvent' = Event(name, 0)
  /\ repeated' = FALSE
  /\ threw' = FALSE
  /\ UNCHANGED << filterVars, nav, widgetVars, map, reinits >>

\* The browser evaluates the script: with the document still loading it
\* registers init for DOMContentLoaded and goes on to define
\* window.FriendlyFix; otherwise it calls init() first, and an exception
\* of init() ends the evaluation before the definition.
OnScriptEvaluate ==
  /\ boot.phase = "parsing"
  /\ boot' = IF boot.readyState = "loading"
             THEN [boot EXCEPT !.phase = "waiting", !.api = TRUE]
             ELSE [RunInit(boot) EXCEPT !.api = (RunInit(boot).phase = "done")]
  /\ SiteEvent("script")
  /\ UNCHANGED << form, counter, toasts >>

\* DOMContentLoaded fires: init() runs as its listener.
OnDOMContentLoaded ==
  /\ boot.phase = "waiting"
  /\ boot' = RunInit([boot EXCEPT !.readyState = "interactive"])
  /\ SiteEvent("DOMContentLoaded")
  /\ UNCHANGED << form, counter, toasts >>

\* The user types into a field of the contact form.
OnFormInput ==
  /\ ~form.dirty
  /\ form' = [form EXCEPT !.dirty = TRUE]
  /\ SiteEvent("formInput")
  /\ UNCHANGED << counter, boot, toasts >>

\* A submit event reaches the form once initContactForm has run.  The
\* disabled button stops the user's click, not a submit from another
\* submit control or from requestSubmit().
OnFormSubmit ==
  /\ boot.steps >= 3
  /\ form.submits < MaxSubmits
  /\ form' = FormSubmit(form)
  /\ SiteEvent("submit")
  /\ UNCHANGED << counter, boot, toasts >>

\* The oldest pending 2000 ms timer of the form fires.
OnFormTimer ==
  /\ form.timers # <<>>
  /\ form' = FormTimer(form)
  /\ \E p \in InsertPositions(toasts.queue, SlideInMs) :
        toasts' = ShowNotification(toasts, p)
  /\ SiteEvent("formTimer")
  /\ UNCHANGED << counter, boot >>

\* Another script calls window.FriendlyFix.showNotification.
OnShowNotificationCall ==
  /\ boot.api
  /\ Len(toasts.list) < MaxToasts
  /\ \E p \in InsertPositions(toasts.queue, SlideInMs) :
        toasts' = ShowNotification(toasts, p)
  /\ SiteEvent("showNotification")
  /\ UNCHANGED << form, counter, boot >>

\* The toast timer that is due first fires.
OnToastTimer ==
  /\ toasts.queue # <<>>
  /\ \E p \in InsertPositions(Tail(toasts.queue), RemoveMs) :
        toasts' = ToastTimer(toasts, p)
  /\ lastEvent' = Event("toastTimer", Head(toasts.queue).toast)
  /\ repeated' = FALSE
  /\ threw' = FALSE
  /\ UNCHANGED << filterVars, nav, widgetVars, form, counter, boot, map, reinits >>

\* The counter element scrolls into view: the counterObserver, which
\* exists when init() went through, calls back.
OnCounterIntersect ==
  /\ boot.phase = "done"
  /\ counter.observed
  /\ counter' = CounterIntersect(counter)
  /\ SiteEvent("counterIntersect")
  /\ UNCHANGED << form, boot, toasts >>

\* The 16 ms interval of the counter ticks.
OnCounterTick ==
  /\ counter.running
  /\ counter.ticks <= CounterTicks
  /\ counter' = CounterTick(counter)
  /\ SiteEvent("counterTick")
  /\ UNCHANGED << form, boot, toasts >>

\* What an event of the map leaves elsewhere.
MapEvent(name) ==
  /\ lastEvent' = Event(name, 0)
  /\ repeated' = FALSE
  /\ threw' = FALSE
  /\ UNCHANGED << filterVars, nav, widgetVars, form, counter, boot, toasts, reinits >>

\* map.js is evaluated: initMap is registered for DOMContentLoaded while
\* the document is loading, and called at once otherwise.
OnMapScriptEvaluate ==
  /\ map.phase = "parsing"
  /\ map' = IF map.readyState = "loading"
            THEN [map EXCEPT !.phase = "waiting"]
            ELSE InitMap(map)
  /\ MapEvent("mapScript")

\* DOMContentLoaded fires: initMap runs as its listener.
OnMapDOMContentLoaded ==
  /\ map.phase = "waiting"
  /\ map' = InitMap([map EXCEPT !.readyState = "interactive"])
  /\ MapEvent("mapDOMContentLoaded")

\* The map fires 'click'.
OnMapClick ==
  /\ map.created
  /\ map' = [MapClick(map) EXCEPT !.pointer = "click"]
  /\ MapEvent("mapClick")

\* The map fires 'mouseout'.
OnMapMouseOut ==
  /\ map.created
  /\ map' = [MapMouseOut(map) EXCEPT !.pointer = "mouseout"]
  /\ MapEvent("mapMouseOut")

\* The user turns the wheel over the map, one level in or out.
OnMapWheel(delta) ==
  /\ map.created
  /\ map' = MapWheel(map, delta)
  /\ MapEvent("mapWheel")

\* The user presses the zoom control's + or - button.
OnMapZoomControl(delta) ==
  /\ map.created
  /\ map' = MapZoomControl(map, delta)
  /\ MapEvent("mapZoomControl")

\* Another script calls window.FriendlyFix[f]() on the initialised page:
\* initTabs and initAccordions query the same elements again and add their
\* listeners to them; nothing else changes.
OnReinit(f) ==
  /\ boot.api
  /\ reinits[f] < MaxReinits
  /\ reinits' = [reinits EXCEPT ![f] = @ + 1]
  /\ lastEvent' = Event("reinit", 0)
  /\ repeated' = FALSE
  /\ threw' = FALSE
  /\ UNCHANGED << filterVars, nav, widgetVars, form, counter, boot, map, toasts >>

\* Search and filter with Load More.
Next ==
  \/ \E v \in Queries : OnSearchInput(v)
  \/ \E b \in DOMAIN filterButtons : OnFilterClick(b)
  \/ OnLoadMoreClick
  \/ OnLoadMoreTimer
  \/ OnFadeTimer

Spec == Init /\ [][Next]_vars

\* The worked example's page alone.
SpecScenario == InitPage("scenario") /\ InitWidgets(FALSE) /\ [][Next]_vars

\* Search and filter among the other widgets of the page: one query, and
\* the last tab, accordion item, modal and gallery image.
NextPage ==
  \/ \E v \in {QEmpty, QDrain} : OnSearchInput(v)
  \/ \E b \in DOMAIN filterButtons : OnFilterClick(b)
  \/ OnNavToggleClick
  \/ OnNavLinkClick
  \/ OnTabClick(NTabs - 1)
  \/ OnAccordionHeaderClick(NAccordionItems)
  \/ OnModalTriggerClick(NModals)
  \/ OnModalCloseClick(NModals)
  \/ OnLightboxImageClick(NImages - 1)
  \/ OnLightboxCloseClick
  \/ OnLightboxPrevClick
  \/ OnLightboxNextClick
  \/ OnEscapeKey

SpecPage == InitPage("scenario") /\ InitWidgets(FALSE) /\ [][NextPage]_vars

\* The overlays: every modal and gallery image, the nav, Escape and the
\* arrow keys.
NextOverlays ==
  \/ OnNavToggleClick
  \/ OnNavLinkClick
  \/ \E m \in 1..NModals : OnModalTriggerClick(m)
  \/ \E m \in 1..NModals : OnModalCloseClick(m)
  \/ \E index \in ImageIndex : OnLightboxImageClick(index)
  \/ OnLightboxCloseClick
  \/ OnLightboxPrevClick
  \/ OnLightboxNextClick
  \/ \E key \in {"ArrowLeft", "ArrowRight"} : OnKeyDown(key)
  \/ OnEscapeKey

SpecOverlays == InitPage("scenario") /\ InitWidgets(FALSE) /\ [][NextOverlays]_vars

\* Focus around the modals: every modal, Tab and Shift+Tab, Escape.
NextFocus ==
  \/ \E m \in 1..NModals : OnModalTriggerClick(m)
  \/ \E m \in 1..NModals : OnModalCloseClick(m)
  \/ \E shift \in BOOLEAN : OnFocusKey(shift)
  \/ OnEscapeKey

SpecFocus == InitPage("scenario") /\ InitWidgets(FALSE) /\ [][NextFocus]_vars

\* The accordion, with and without data-multi-open, beside the tabs and
\* under the nav whose document listener sees every click.
NextAccordion ==
  \/ \E i \in 1..NAccordionItems : OnAccordionHeaderClick(i)
  \/ \E index \in TabIndex : OnTabClick(index)
  \/ OnNavToggleClick
  \/ OnNavLinkClick

SpecAccordion ==
  /\ InitPage("scenario")
  /\ \E multi \in BOOLEAN : InitWidgets(multi)
  /\ [][NextAccordion]_vars

\* The gallery among the cards of the container, with Load More.
NextGallery ==
  \/ OnLoadMoreClick
  \/ OnLoadMoreTimer
  \/ OnFadeTimer
  \/ \E index \in ImageIndex : OnLightboxImageClick(index)
  \/ \E p \in 1..MaxItems : OnCloneImageClick(p)
  \/ OnLightboxCloseClick
  \/ OnLightboxPrevClick
  \/ OnLightboxNextClick
  \/ OnEscapeKey

SpecGallery == InitPage("scenario") /\ InitWidgets(FALSE) /\ [][NextGallery]_vars

\* The contact form from the evaluation of the script on.
NextSite ==
  \/ OnScriptEvaluate
  \/ OnDOMContentLoaded
  \/ OnFormInput
  \/ OnFormSubmit
  \/ OnFormTimer

SpecSite == InitSite /\ [][NextSite]_vars

\* Every pending timer of the form fires.
SpecSiteFair == SpecSite /\ WF_vars(OnFormTimer)

\* The counter from the evaluation of the script on.
NextCounter ==
  \/ OnScriptEvaluate
  \/ OnDOMContentLoaded
  \/ OnCounterIntersect
  \/ OnCounterTick

SpecCounter == InitSite /\ [][NextCounter]_vars

\* Load More on a container of one card and on the worked example's,
\* with the query field.
NextLoad ==
  \/ OnLoadMoreClick
  \/ OnLoadMoreClickNoTarget
  \/ OnLoadMoreTimer
  \/ OnFadeTimer
  \/ \E v \in {QEmpty, QDrain} : OnSearchInput(v)

SpecLoad ==
  /\ \E p \in {"single", "scenario"} : InitPage(p)
  /\ InitWidgets(FALSE)
  /\ [][NextLoad]_vars

\* The pages before any tag click: the query field and Load More.
NextDefault ==
  \/ \E v \in Queries : OnSearchInput(v)
  \/ OnLoadMoreClick
  \/ OnLoadMoreTimer
  \/ OnFadeTimer

SpecDefault == Init /\ [][NextDefault]_vars

\* The page while map.js is still to be evaluated.
InitMapPage ==
  /\ InitPage("scenario")
  /\ InitMarkup(FALSE)
  /\ form = FormInit
  /\ counter = CounterInit(<< "1", "5", "0", "0" >>)
  /\ boot = BootDone
  /\ toasts = ToastsInit
  /\ reinits = [f \in InitFunctions |-> 0]
  /\ \E c \in BOOLEAN : \E rs \in {"loading", "interactive"} :
        map = MapInit(c, rs)

\* The map from the evaluation of map.js on.
NextMap ==
  \/ OnMapScriptEvaluate
  \/ OnMapDOMContentLoaded
  \/ OnMapClick
  \/ OnMapMouseOut
  \/ \E delta \in {-1, 1} : OnMapWheel(delta)
  \/ \E delta \in {-1, 1} : OnMapZoomControl(delta)

SpecMap == InitMapPage /\ [][NextMap]_vars

\* Tabs and accordion with calls of their init functions through the API.
NextReinit ==
  \/ \E f \in {"initTabs", "initAccordions"} : OnReinit(f)
  \/ \E index \in TabIndex : OnTabClick(index)
  \/ \E i \in 1..NAccordionItems : OnAccordionHeaderClick(i)

SpecReinit ==
  /\ InitPage("scenario")
  /\ \E multi \in BOOLEAN : InitWidgets(multi)
  /\ [][NextReinit]_vars

\* The toasts of the form and of API calls, with their timers.
NextToasts ==
  \/ OnFormSubmit
  \/ OnFormTimer
  \/ OnShowNotificationCall
  \/ OnToastTimer

SpecToasts == InitPage("scenario") /\ InitWidgets(FALSE) /\ [][NextToasts]_vars

\* Every due toast timer fires.
SpecToastsFair == SpecToasts /\ WF_vars(OnToastTimer)

\* The tabs container under clicks and keys.
NextTabs ==
  \/ \E index \in TabIndex : OnTabClick(index)
  \/ \E key \in TabKeys : OnKeyDown(key)
  \/ \E shift \in BOOLEAN : OnFocusKey(shift)
  \/ OnEscapeKey

SpecTabs == InitPage("scenario") /\ InitWidgets(FALSE) /\ [][NextTabs]_vars

\* ------------------------------------------------------------------------
\* Properties
\* ------------------------------------------------------------------------

\* The space-separated tokens of an attribute value (the item's tag set).
TagSet(s) ==
  {SubSeq(s, i, j) : <<i, j>> \in
     {p \in (DOMAIN s) \X (DOMAIN s) :
        /\ p[1] <= p[2]
        /\ \A k \in p[1]..p[2] : s[k] # " "
        /\ (p[1] = 1 \/ s[p[1] - 1] = " ")
        /\ (p[2] = Len(s) \/ s[p[2] + 1] = " ")}}

\* The data-filter values of the buttons that carry class "active".
ActiveTags == {filterButtons[b] : b \in {x \in DOMAIN filterButtons : active[x]}}

\* An element is displayed unless its inline display is 'none'.
Displayed(it) == it.display # "none"

\* The tags of an item, none when data-category is missing.
ItemTags(it) == IF it.hasCategory THEN TagSet(it.category) ELSE {}

\* The visibility rule of the data model, for query q and selected tag.
VisibleByRule(q, tag, it) ==
  /\ q = <<>> \/ Includes(ToLowerCase(it.text), ToLowerCase(q))
  /\ tag = TagAll \/ tag \in ItemTags(it)

\* The last event was a recomputation (query input or tag click).
Recomputed == lastEvent.name \in {"input", "filter"}

\* No Load More has completed: the document holds the markup's items only.
NoClones == Len(items) = Len(searchableItems)

\* The button labelled "all".
AllButton == CHOOSE b \in DOMAIN filterButtons : filterButtons[b] = TagAll

\* C1: after query inputs and tag clicks (at least one), every searchable
\* item is displayed iff (the query is empty or its text contains the query,
\* case-insensitively) and (the active tag is "all" or is in its tag set).
\* The query is read as the field's value or as its trimmed form, whichever
\* agrees with the display.
C1_VisibleIffRule ==
  (Recomputed /\ NoClones) =>
    \A i \in DOMAIN items : \A tag \in ActiveTags :
      \E q \in {searchValue, Trim(searchValue)} :
        Displayed(items[i]) <=> VisibleByRule(q, tag, items[i])

\* C2: for every query value, tag and item the verdict of the search-input
\* handler equals the verdict of the tag-click handler.
C2_HandlersAgree ==
  \A b \in DOMAIN filterButtons : \A i \in DOMAIN items :
    InputVerdict([Doc EXCEPT !.active = ActivateButton(Doc, b)], items[i])
      = ClickVerdict(Doc, filterButtons[b], items[i])

\* C3: an item without data-category never makes a handler fail; under a
\* tag other than "all" a recomputation hides it and runs to completion.
C3_MissingCategoryDegrades ==
  /\ ~threw
  /\ Recomputed =>
       \A i \in DOMAIN items :
         (/\ items[i].node \in Range(searchableItems)
          /\ ~items[i].hasCategory
          /\ TagAll \notin ActiveTags) => ~Displayed(items[i])

\* C4: a recomputation evaluates every searchable item of the page,
\* clones appended by Load More included: afterwards each item's display
\* is the one the handler that ran decides for the current query and tag.
C4_RecomputationIsTotal ==
  /\ lastEvent.name = "input" =>
       \A i \in DOMAIN items :
         Displayed(items[i]) <=> InputVerdict(Doc, items[i]) = "show"
  /\ lastEvent.name = "filter" =>
       \A i \in DOMAIN items :
         Displayed(items[i]) <=>
           ClickVerdict(Doc, filterButtons[lastEvent.button], items[i]) = "show"

\* C5: the no-results message is displayed iff no searchable item is.
C5_NoResultsIffNoneDisplayed ==
  (noResults = "block") <=> (\A i \in DOMAIN items : ~Displayed(items[i]))

\* C6: exactly one filter button is active in every state, and after a tag
\* click it is the button clicked.
C6_SingleSelect ==
  /\ Cardinality({b \in DOMAIN filterButtons : active[b]}) = 1
  /\ lastEvent.name = "filter" => active[lastEvent.button]

C6_Witness ==
  /\ lastEvent.name = "filter"
  /\ filterButtons[lastEvent.button] # TagAll
  /\ {b \in DOMAIN filterButtons : active[b]} = {lastEvent.button}

\* C7: under a selected tag other than "all" an item passes the tag
\* condition iff the tag equals one of its space-separated tags (with the
\* query empty the tag condition alone decides the display).
C7_WholeTagMatch ==
  (Recomputed /\ ~threw /\ searchValue = <<>>) =>
    \A i \in DOMAIN items : \A tag \in ActiveTags \ {TagAll} :
      items[i].node \in Range(searchableItems) =>
        (Displayed(items[i]) <=> tag \in ItemTags(items[i]))

\* C8: from every reachable state, clearing the query and clicking "all",
\* in either order, leaves every item displayed and the message hidden.
C8_ClearAndAllShowEverything ==
  LET clearThenAll ==
        FilterClickHandler(SearchInputHandler([Doc EXCEPT !.value = <<>>]), AllButton)
      allThenClear ==
        SearchInputHandler([FilterClickHandler(Doc, AllButton) EXCEPT !.value = <<>>])
  IN  \A d \in {clearThenAll, allThenClear} :
        /\ \A i \in DOMAIN d.items : Displayed(d.items[i])
        /\ d.noResults = "none"

\* C9: a recomputation repeated on unchanged inputs (the same input event
\* again, the active button clicked again) leaves the displayed items, the
\* active button and the no-results message as the first one left them.
C9_RecomputationIdempotent ==
  [][repeated' => (items' = items /\ active' = active /\ noResults' = noResults)]_vars

C9_Witness ==
  /\ repeated
  /\ \E i \in DOMAIN items : ~Displayed(items[i])
  /\ \E i \in DOMAIN items : Displayed(items[i])

\* The events of the other widgets.
WidgetEvents ==
  {"navToggle", "navLink", "tab", "accordion", "modalOpen", "modalClose",
   "lightboxOpen", "lightboxClose", "lightboxPrev", "lightboxNext", "escape"}

\* The items without their display and animation: which nodes there are,
\* in which order, and everything else they carry.
ItemFrame(its) ==
  [i \in DOMAIN its |->
     [node |-> its[i].node, text |-> its[i].text,
      hasCategory |-> its[i].hasCategory, category |-> its[i].category,
      opacity |-> its[i].opacity, transition |-> its[i].transition]]

\* C10: a query input changes only item display/animation and the
\* no-results message (never the active button); a tag click never changes
\* the query field; neither adds, removes or reorders items; and no event
\* of tabs, accordion, modals, lightbox or nav changes the query, the
\* active button or an item's display.
C10_FilterFrame ==
  [][ /\ lastEvent'.name = "input" =>
           /\ ItemFrame(items') = ItemFrame(items)
           /\ UNCHANGED << active, searchableItems, loadBtn, loadTimer, fadeQueue,
                           nav, widgetVars >>
      /\ lastEvent'.name = "filter" =>
           /\ searchValue' = searchValue
           /\ ItemFrame(items') = ItemFrame(items)
      /\ lastEvent'.name \in WidgetEvents =>
           UNCHANGED << searchValue, active, items, noResults >> ]_vars

C10_Witness ==
  /\ lastEvent.name \in WidgetEvents
  /\ searchValue = QDrain
  /\ TagAll \notin ActiveTags
  /\ \E i \in DOMAIN items : ~Displayed(items[i])

\* ------------------------------------------------------------------------
\* Overlays: modals and lightbox
\* ------------------------------------------------------------------------

ActiveModals == {m \in DOMAIN modals : modals[m]}

OverlayOpen == ActiveModals # {} \/ lightbox.active

\* C11: whenever at least one modal or the lightbox is active, the body's
\* overflow is 'hidden': closing one overlay does not restore body
\* scrolling while another is still active.
C11_ScrollLockedWhileOverlayOpen == OverlayOpen => bodyOverflow = "hidden"

\* C12: there is a single active overlay: no two modals are active at the
\* same time and no modal is active together with the lightbox.
C12_SingleActiveOverlay ==
  Cardinality(ActiveModals) + (IF lightbox.active THEN 1 ELSE 0) <= 1

\* C13: right after an Escape keydown has been handled nothing is open: no
\* modal is active, the lightbox is not active and the nav is not open.
C13_EscapeClosesEverything ==
  lastEvent.name = "escape" =>
    /\ ActiveModals = {}
    /\ ~lightbox.active
    /\ ~nav.open

\* ------------------------------------------------------------------------
\* Focus around the modals
\* ------------------------------------------------------------------------

\* The focusable elements inside modal m: its close button.
ModalElements(m) == {Element("modal-close", m)}

\* C14: while a modal is active (taken alone), focus is on an element
\* inside it: it moves in on open and neither Tab nor Shift+Tab takes it
\* out.
C14_FocusTrappedInModal ==
  \A m \in DOMAIN modals : ActiveModals = {m} => focus \in ModalElements(m)

\* C15: right after modal m was closed, by its close button, its backdrop
\* or Escape, focus is back on the trigger that opened it.
C15_CloseReturnsFocusToTrigger ==
  lastEvent.name \in {"modalClose", "escape"} /\ lastEvent.button # 0 =>
    focus = Element("modal-trigger", lastEvent.button)

\* ------------------------------------------------------------------------
\* Accordion
\* ------------------------------------------------------------------------

\* The items of accordion a that carry the class "active".
OpenItems(a) == {j \in DOMAIN a.item : a.item[j].active}

\* C16: without data-multi-open, a click on the header of a closed item
\* leaves exactly that item open, and a click on the header of the open
\* item leaves none open: at most one item is open after any header click.
C16_SingleOpenToggle ==
  [][ ~accordion.multiOpen /\ lastEvent'.name = "accordion" =>
        OpenItems(accordion') =
          IF accordion.item[lastEvent'.button].active THEN {}
          ELSE {lastEvent'.button} ]_vars

\* A header click has just opened one item of a single-open accordion and
\* its loop over the other items has left another one closed.
C16_Witness ==
  /\ ~accordion.multiOpen
  /\ lastEvent.name = "accordion"
  /\ OpenItems(accordion) = {lastEvent.button}
  /\ \E j \in DOMAIN accordion.item :
        j # lastEvent.button /\ accordion.item[j].icon = "rotate(0deg)"

\* C17: with data-multi-open, a header click toggles the clicked item and
\* leaves the class, max-height and icon of every other item as they were.
C17_MultiOpenFrame ==
  [][ accordion.multiOpen /\ lastEvent'.name = "accordion" =>
        /\ accordion'.item[lastEvent'.button].active
              = ~accordion.item[lastEvent'.button].active
        /\ \A j \in DOMAIN accordion.item :
              j # lastEvent'.button => accordion'.item[j] = accordion.item[j] ]_vars

\* Every item of a multi-open accordion is open after a header click.
C17_Witness ==
  /\ accordion.multiOpen
  /\ lastEvent.name = "accordion"
  /\ OpenItems(accordion) = DOMAIN accordion.item

\* ------------------------------------------------------------------------
\* Tabs
\* ------------------------------------------------------------------------

\* A tab button's click listener has run: it leaves aria-selected on
\* every button.
TabsClicked == \E j \in TabIndex : tabs.ariaSelected[j] # ""

\* C18: once a tab has been clicked, whatever clicks and keys follow,
\* exactly one tab button and exactly one panel are active, at the same
\* index, with aria-selected 'true' on that button only and aria-hidden
\* 'false' on that panel only.
C18_OneActiveTab ==
  TabsClicked =>
    \E k \in TabIndex :
      \A j \in TabIndex :
        /\ tabs.button[j] <=> j = k
        /\ tabs.panel[j] <=> j = k
        /\ tabs.ariaSelected[j] = "true" <=> j = k
        /\ tabs.ariaHidden[j] = "false" <=> j = k

\* A key press has just moved the active tab to the last one after an
\* earlier tab was active.
C18_Witness ==
  /\ TabsClicked
  /\ lastEvent.name \in TabKeys
  /\ tabs.button[NTabs - 1]
  /\ \E j \in TabIndex : j # NTabs - 1 /\ tabs.ariaSelected[j] = "false"

\* C19: a keydown on tab button i activates and focuses button (i+1) mod n
\* for ArrowRight, (i-1+n) mod n for ArrowLeft, 0 for Home and n-1 for End,
\* i being the button that has the key, whichever tab is active; Escape,
\* Tab and Shift+Tab change no tab state.
C19_TabKeyNavigation ==
  [][ /\ lastEvent'.name \in TabKeys /\ focus[1] = "tab" =>
          LET i == focus[2]
              key == lastEvent'.name
              new == IF key = "ArrowRight" THEN (i + 1) % NTabs
                     ELSE IF key = "ArrowLeft" THEN (i - 1 + NTabs) % NTabs
                     ELSE IF key = "Home" THEN 0
                     ELSE NTabs - 1
          IN  /\ \A j \in TabIndex : tabs'.button[j] <=> j = new
              /\ \A j \in TabIndex : tabs'.panel[j] <=> j = new
              /\ focus' = Element("tab", new)
      /\ lastEvent'.name \in {"escape", "Tab", "Shift+Tab"} => tabs' = tabs ]_vars

\* ArrowRight on the last tab button has wrapped to the first one, which
\* is active and focused.
C19_Witness ==
  /\ lastEvent.name = "ArrowRight"
  /\ focus = Element("tab", 0)
  /\ tabs.button[0]
  /\ tabs.ariaSelected[0] = "true"

\* ------------------------------------------------------------------------
\* Lightbox
\* ------------------------------------------------------------------------

\* The open lightbox shows image currentIndex with its caption, prev is
\* hidden exactly on the first image and next exactly on the last.
LightboxShowsCurrent(lb) ==
  lb.active =>
    /\ lb.shown = lb.currentIndex
    /\ lb.caption = lb.currentIndex
    /\ lb.prev = "none" <=> lb.currentIndex = 0
    /\ lb.next = "none" <=> lb.currentIndex = NImages - 1

\* C20: after any image click, prev/next click or arrow key the index is
\* within 0..n-1 and the open lightbox shows that image with its caption
\* and the matching prev/next buttons; prev and next (button or arrow
\* key) move the index by exactly one and do nothing at the ends.
C20_LightboxIndex ==
  [][ /\ lightbox'.currentIndex \in 0..(NImages - 1)
      /\ LightboxShowsCurrent(lightbox')
      /\ (lastEvent'.name = "lightboxPrev"
           \/ (lastEvent'.name = "ArrowLeft" /\ lightbox.active)) =>
            lightbox'.currentIndex =
              IF lightbox.currentIndex = 0 THEN 0 ELSE lightbox.currentIndex - 1
      /\ (lastEvent'.name = "lightboxNext"
           \/ (lastEvent'.name = "ArrowRight" /\ lightbox.active)) =>
            lightbox'.currentIndex =
              IF lightbox.currentIndex = NImages - 1 THEN NImages - 1
              ELSE lightbox.currentIndex + 1 ]_vars

\* The open lightbox is on the last image after a move forward: next is
\* hidden and prev is shown.
C20_Witness ==
  /\ lightbox.active
  /\ lastEvent.name \in {"lightboxNext", "ArrowRight"}
  /\ lightbox.currentIndex = NImages - 1
  /\ lightbox.shown = NImages - 1
  /\ lightbox.next = "none"
  /\ lightbox.prev = "block"

\* C21: a click on any [data-lightbox] image that is in the page, the
\* images inside the cards a completed Load More appended included, opens
\* the lightbox on that image.
C21_EveryImageOpensLightbox ==
  /\ lastEvent.name = "lightboxOpen" =>
        lightbox.active /\ lightbox.shown = lastEvent.button
  /\ lastEvent.name = "cloneImageClick" =>
        lightbox.active /\ lightbox.shown = ImageInCard(page, items[lastEvent.button])

\* ------------------------------------------------------------------------
\* Mobile navigation
\* ------------------------------------------------------------------------

\* The clicks of the overlays, all outside nav and toggle.
OutsideClicks ==
  {"modalOpen", "modalClose", "lightboxOpen", "lightboxClose", "lightboxPrev",
   "lightboxNext"}

\* C22: after every event the toggle's aria-expanded is 'true' iff the nav
\* has the open class; a toggle click flips the open state; a nav-link
\* click, a click outside nav and toggle, and Escape leave the nav closed.
C22_NavAriaFollowsOpen ==
  [][ /\ nav'.ariaExpanded = "true" <=> nav'.open
      /\ lastEvent'.name = "navToggle" => nav'.open = ~nav.open
      /\ lastEvent'.name \in {"navLink", "escape"} \cup OutsideClicks => ~nav'.open ]_vars

\* Escape has just closed the open nav.
C22_Witness ==
  /\ lastEvent.name = "escape"
  /\ ~nav.open
  /\ nav.ariaExpanded = "false"
  /\ nav.listener

\* ------------------------------------------------------------------------
\* Contact form
\* ------------------------------------------------------------------------

\* C23: the default action of every submit is prevented, and every submit
\* is followed, when its timer fires, by exactly one success notification
\* and one form reset: each submit is either pending or notified, none is
\* dropped, and the k-th submit leads to the k-th notification and reset.
C23_EverySubmitNotified ==
  /\ [](/\ form.prevented = form.submits
        /\ form.submits = form.notifications + Len(form.timers)
        /\ form.resets = form.notifications)
  /\ \A k \in 1..MaxSubmits :
        (form.submits >= k) ~> (form.notifications >= k /\ form.resets >= k)

\* Two submits have both been answered by their timers: the fields typed
\* into are reset and no timer is pending.
C23_Witness ==
  /\ lastEvent.name = "formTimer"
  /\ form.submits = 2
  /\ form.notifications = 2
  /\ form.resets = 2
  /\ form.timers = <<>>
  /\ ~form.dirty

\* C24: under any interleaving of submits and timer expiries, a second
\* submit while the first is pending included: with no timer pending the
\* submit button is enabled, not loading and shows the label it had before
\* the first submit; with a timer pending it is disabled and shows
\* 'Sending...'.
C24_ButtonFollowsPendingTimers ==
  /\ form.timers = <<>> =>
        /\ ~form.button.disabled
        /\ ~form.button.loading
        /\ form.button.text = SubmitLabel
  /\ form.timers # <<>> =>
        /\ form.button.disabled
        /\ form.button.text = "Sending..."

\* ------------------------------------------------------------------------
\* Load More
\* ------------------------------------------------------------------------

\* C25: a click on a Load More button whose target resolves puts it into
\* the loading state; the button is disabled exactly while its timer is
\* pending; when the timer fires items are appended and the button is
\* enabled again with its original label; a click on a button whose
\* target does not resolve changes nothing.
C25_LoadMoreButton ==
  [][ /\ loadBtn'.disabled <=> loadTimer'.pending
      /\ lastEvent'.name = "loadClick" =>
            loadBtn' = [loading |-> TRUE, disabled |-> TRUE, text |-> "Loading..."]
      /\ lastEvent'.name = "loadTimer" =>
            /\ Len(items') > Len(items)
            /\ loadBtn' = [loading |-> FALSE, disabled |-> FALSE,
                           text |-> "Load More Services"]
      /\ lastEvent'.name = "loadClickNoTarget" => UNCHANGED filterVars ]_vars

\* The second load of a container has completed: the button is back to
\* its markup state.
C25_Witness ==
  /\ lastEvent.name = "loadTimer"
  /\ loads = 2
  /\ ~loadBtn.disabled
  /\ ~loadBtn.loading
  /\ loadBtn.text = "Load More Services"
  /\ Len(items) > Len(searchableItems)

\* ------------------------------------------------------------------------
\* Initialisation and counters
\* ------------------------------------------------------------------------

\* C26: in a browser without IntersectionObserver, once init() has been
\* called it has completed without throwing: every step ran, the body
\* has the loaded class and window.FriendlyFix is defined.
C26_InitSurvivesMissingObserver ==
  (~boot.hasIO /\ boot.phase \notin {"parsing", "waiting"}) =>
    /\ boot.phase = "done"
    /\ boot.steps = Len(InitSteps)
    /\ boot.loaded
    /\ boot.api

\* JavaScript's > and < on numbers: false when either side is NaN.
Greater(a, b) == ~a.nan /\ ~b.nan /\ a.value > b.value

Less(a, b) == ~a.nan /\ ~b.nan /\ a.value < b.value

\* C27: the counter animation starts at most once; it ends, its interval
\* cleared after duration / 16 ticks (one more allowed for the rounding of
\* the sum); while it runs the value shown does not decrease and does not
\* exceed the target; the final value shown is the target.
C27_CounterTerminatesAtTarget ==
  [][ /\ counter'.started <= 1
      /\ counter'.running => counter'.ticks <= CounterTicks
      /\ ~Greater(counter'.text, ParseInt(counter'.attr))
      /\ ~Less(counter'.text, counter.text)
      /\ (counter'.started = 1 /\ ~counter'.running) =>
            counter'.text = ParseInt(counter'.attr) ]_vars

\* ------------------------------------------------------------------------
\* Search: real time, default state
\* ------------------------------------------------------------------------

\* C28: when an input event on the query field has been handled, the
\* recomputation is done: every item of the page is displayed iff it
\* matches the field's latest value (trimmed) and the active tag.
C28_InputReflectedAtOnce ==
  lastEvent.name = "input" =>
    \A i \in DOMAIN items : \A tag \in ActiveTags :
      Displayed(items[i]) <=> VisibleByRule(Trim(searchValue), tag, items[i])

\* C29: before any tag click the tag condition counts as "all": an item
\* is displayed iff its text contains the query (the field's value or its
\* trimmed form).
C29_DefaultTagIsAll ==
  \A i \in DOMAIN items :
    \E q \in {searchValue, Trim(searchValue)} :
      Displayed(items[i]) <=> VisibleByRule(q, TagAll, items[i])

\* ------------------------------------------------------------------------
\* Load More: what a batch is
\* ------------------------------------------------------------------------

\* The items the container held at init.
StartCount == Len(searchableItems)

\* min(3, n)
BatchOf(n) == IF n < 3 THEN n ELSE 3

C31_ScrollZoomFollowsClick ==
  /\ map.scrollWheelZoom <=> (map.created /\ map.pointer = "click")
  /\ lastEvent.name \in {"mapScript", "mapDOMContentLoaded"} => ~map.scrollWheelZoom

\* The map has left its starting zoom level, its last pointer event is a
\* mouseout, and a wheel step has just been made with zoom disabled.
C31_Witness ==
  /\ lastEvent.name = "mapWheel"
  /\ map.pointer = "mouseout"
  /\ ~map.scrollWheelZoom
  /\ map.zoom # StartZoom

\* ------------------------------------------------------------------------
\* The nav's document listener
\* ------------------------------------------------------------------------

\* C32: closeNavOnOutsideClick is registered on the document if and only
\* if the nav is open, after any sequence of toggle clicks, nav-link
\* clicks, outside clicks and Escape presses.
C32_ListenerIffNavOpen == nav.listener <=> nav.open

\* ------------------------------------------------------------------------
\* Re-initialisation through window.FriendlyFix
\* ------------------------------------------------------------------------

\* C33: after initTabs or initAccordions was called again, every click
\* still leaves the state that the click leaves on a page initialised
\* once.
C33_ReinitKeepsClickEffect ==
  [][ /\ lastEvent'.name = "accordion" =>
            accordion' = AccordionHeaderClick(accordion, lastEvent'.button)
      /\ lastEvent'.name = "tab" =>
            \E index \in TabIndex : tabs' = TabClick(tabs, index) ]_vars

\* ------------------------------------------------------------------------
\* Toast notifications
\* ------------------------------------------------------------------------

\* The events in which showNotification is called.
NotificationCalls == {"formTimer", "showNotification"}

\* C34: every showNotification call inserts exactly one toast and leaves
\* the toasts before it as they were; a timer of one toast changes no
\* other toast; no toast is removed twice, a removed toast has slid out,
\* the toasts leave the document in the order they were created; and
\* every toast created is eventually removed.
C34_ToastInsertedOnceRemovedOnce ==
  /\ [][ /\ lastEvent'.name \in NotificationCalls =>
               /\ Len(toasts'.list) = Len(toasts.list) + 1
               /\ SubSeq(toasts'.list, 1, Len(toasts.list)) = toasts.list
               /\ toasts'.list[Len(toasts'.list)].inDocument
               /\ toasts'.removed = toasts.removed
         /\ lastEvent'.name = "toastTimer" =>
               /\ Len(toasts'.list) = Len(toasts.list)
               /\ \A k \in DOMAIN toasts.list :
                     k # lastEvent'.button => toasts'.list[k] = toasts.list[k] ]_vars
  /\ [](/\ \A k \in DOMAIN toasts.list :
             /\ toasts.list[k].removals = (IF toasts.list[k].inDocument THEN 0 ELSE 1)
             /\ ~toasts.list[k].inDocument => toasts.list[k].transform = "translateX(100%)"
        /\ toasts.removed = [j \in 1..Len(toasts.removed) |-> j])
  /\ \A k \in 1..(MaxToasts + MaxSubmits) :
        (Len(toasts.list) >= k) ~>
          (Len(toasts.list) >= k /\ ~toasts.list[k].inDocument)

\* Two toasts of overlapping calls: the removal timer of the first has
\* just taken it out of the document while the second, already slid in,
\* is still shown.
C34_Witness ==
  /\ lastEvent = Event("toastTimer", 1)
  /\ toasts.removed = << 1 >>
  /\ Len(toasts.list) >= 2
  /\ toasts.list[2].inDocument
  /\ toasts.list[2].transform = "translateX(0)"

\* ------------------------------------------------------------------------
\* Accordion: class, max-height and icon of one item
\* ------------------------------------------------------------------------

\* C35: after any sequence of header clicks an item has the active class
\* if and only if its content has a max-height set and its icon is
\* rotated 180 degrees; a closed item has its max-height cleared and its
\* icon at 0 degrees (rotate(0deg), or no transform as in the markup).
C35_ItemClassMatchesStyle ==
  \A i \in DOMAIN accordion.item :
    /\ accordion.item[i].active <=> accordion.item[i].maxHeight # ""
    /\ accordion.item[i].active <=> accordion.item[i].icon = "rotate(180deg)"
    /\ ~accordion.item[i].active =>
          /\ accordion.item[i].maxHeight = ""
          /\ accordion.item[i].icon \in {"", "rotate(0deg)"}

\* A click on the header of an open item has just closed it.
C35_Witness ==
  /\ lastEvent.name = "accordion"
  /\ ~accordion.item[lastEvent.button].active
  /\ accordion.item[lastEvent.button].maxHeight = ""
  /\ accordion.item[lastEvent.button].icon = "rotate(0deg)"
  /\ \E j \in DOMAIN accordion.item : accordion.item[j].active

====
